---- MODULE Spec2Model ----
(***************************************************************************)
(* Model of src/js/components/navbars.js (mobile-angular-ui.components.    *)
(* navbars): the navbarAbsoluteTop / navbarAbsoluteBottom directives, the  *)
(* navController registry shared through the closure variable `global`,    *)
(* and the twelve [hide|show|slidein|slideout][Top|Bottom|Both]Nav toggle  *)
(* directives.                                                             *)
(*                                                                         *)
(* JavaScript is single threaded: a callback (a link function, a $destroy  *)
(* broadcast) runs to completion before the next one starts.  The class    *)
(* operations inside one toggle link are nevertheless separate DOM         *)
(* mutations, so the model runs a toggle link as a sequence of steps kept  *)
(* in `stack`; no other callback starts while `stack` is non-empty.        *)
(***************************************************************************)
EXTENDS Integers, Sequences, FiniteSets, TLC

\* Number of navbar elements that may ever be linked, and of scopes they
\* may live on.
NumElems == 2
NumScopes == 2

Elems == 1..NumElems
Scopes == 1..NumScopes

\* `undefined`: the value of `global` before the first link, and of a
\* controller property that was never registered.
Undefined == 0

Sides == {"top", "bottom"}
Navs == {"Top", "Bottom", "Both"}
Methods == {"hide", "show", "slidein", "slideout"}

VARIABLES
  global,       \* element whose navController is the registry, or Undefined
  ctrl,         \* ctrl[e][side]: element bound in the controller registered on e's navController
  rootClass,    \* sides S such that $rootElement carries has-navbar-S
  ngHide,       \* ngHide[e]: navbar element e carries ng-hide
  navSide,      \* navSide[e]: side of the directive linked on e, "none" before
  scopeOf,      \* scopeOf[e]: scope e was linked with, Undefined before
  destroyed,    \* scopes that received $destroy
  stack,        \* remaining steps of the toggle link in progress
  cur,          \* the callback in progress, or the last one run
  err,          \* the callback `cur` ended by throwing
  pre,          \* classes at the entry of the callback `cur`
  lastLinked,   \* history: per side, the navbar linked most recently
  hiddenAtLink, \* history: sides that had a navbar linked while it carried ng-hide
  toggled       \* history: some toggle directive has linked

vars == <<global, ctrl, rootClass, ngHide, navSide, scopeOf, destroyed, stack,
          cur, err, pre, lastLinked, hiddenAtLink, toggled>>

----------------------------------------------------------------------------
\* DOM class operations, as steps of a callback.

RootAddClass(side) == [op |-> "rootAddClass", side |-> side, elem |-> Undefined, method |-> "none"]
RootRemoveClass(side) == [op |-> "rootRemoveClass", side |-> side, elem |-> Undefined, method |-> "none"]
ElemAddClass(side, elem) == [op |-> "elemAddClass", side |-> side, elem |-> elem, method |-> "none"]
ElemRemoveClass(side, elem) == [op |-> "elemRemoveClass", side |-> side, elem |-> elem, method |-> "none"]
\* global[side][method]()
Call(side, method) == [op |-> "call", side |-> side, elem |-> Undefined, method |-> method]

\* The four methods of the controller registered for `side`, closed over `elem`.
hide_keepsRoot(side, elem) == <<ElemAddClass(side, elem)>>
hide_elemFirst(side, elem) == <<ElemAddClass(side, elem), RootRemoveClass(side)>>
hide(side, elem) == <<RootRemoveClass(side), ElemAddClass(side, elem)>>

show(side, elem) == <<ElemRemoveClass(side, elem), RootAddClass(side)>>

slideout_keepsRoot(side, elem) == <<ElemAddClass(side, elem)>>
slideout(side, elem) == <<RootRemoveClass(side), ElemAddClass(side, elem)>>

slidein(side, elem) == <<ElemRemoveClass(side, elem), RootAddClass(side)>>

Invoke(method, side, elem) ==
  CASE method = "hide" -> hide(side, elem)
    [] method = "show" -> show(side, elem)
    [] method = "slideout" -> slideout(side, elem)
    [] method = "slidein" -> slidein(side, elem)

\* nav.toLowerCase()
toLowerCase(nav) ==
  CASE nav = "Top" -> "top"
    [] nav = "Bottom" -> "bottom"
    [] nav = "Both" -> "both"

\* Body of the toggle link once `global` is known to be set.
linkBody_bottomOnly(nav, method) ==
  IF nav = "Both" THEN <<Call("bottom", method)>>
  ELSE <<Call(toLowerCase(nav), method)>>
linkBody_topFirst(nav, method) ==
  IF nav = "Both" THEN <<Call("top", method), Call("bottom", method)>>
  ELSE <<Call(toLowerCase(nav), method)>>
linkBody_alwaysBoth(nav, method) ==
  <<Call("bottom", method), Call("top", method)>>
linkBody(nav, method) ==
  IF nav = "Both" THEN <<Call("bottom", method), Call("top", method)>>
  ELSE <<Call(toLowerCase(nav), method)>>

\* if (global) ... : the toggle link does nothing while no navbar was linked.
globalIsSet_always(g) == TRUE
globalIsSet(g) == g # Undefined

\* if (!global) global = ctrl;
globalAfterLink(g, e) == IF g = Undefined THEN e ELSE g

\* this.registerController = function(name, ctrl) { this[name] = ctrl; }
\* `this` is the navController of element `self`; the registered controller
\* is represented by the element its methods are closed over.
registerController_onOwn(c, self, name, elem) == [c EXCEPT ![elem][name] = elem]
registerController(c, self, name, elem) == [c EXCEPT ![self][name] = elem]

\* global[side]: reading a property of `undefined` throws like calling an
\* undefined property does, so both read as Undefined here.
Lookup(g, c, side) == IF g = Undefined THEN Undefined ELSE c[g][side]

\* Effect of one class operation on the root element's classes and on the
\* navbar elements' ng-hide class.
ApplyRoot(o, root) ==
  CASE o.op = "rootAddClass" -> root \cup {o.side}
    [] o.op = "rootRemoveClass" -> root \ {o.side}
    [] OTHER -> root
ApplyElem(o, hidden) ==
  CASE o.op = "elemAddClass" -> [hidden EXCEPT ![o.elem] = TRUE]
    [] o.op = "elemRemoveClass" -> [hidden EXCEPT ![o.elem] = FALSE]
    [] OTHER -> hidden

\* The classes left by running the class operations `ops` in order.
RECURSIVE RunOps(_, _)
RunOps(ops, st) ==
  IF ops = <<>> THEN st
  ELSE RunOps(Tail(ops), [st EXCEPT !.root = ApplyRoot(Head(ops), st.root),
                                    !.hide = ApplyElem(Head(ops), st.hide)])

\* The whole toggle link as a function of the classes `st` at its entry:
\* the calls of `calls` in order, up to the first one that throws.
RECURSIVE RunCalls(_, _)
RunCalls(calls, st) ==
  IF calls = <<>> THEN st
  ELSE LET c == Head(calls)
           target == Lookup(global, ctrl, c.side)
       IN IF target = Undefined
          THEN [st EXCEPT !.err = TRUE]
          ELSE RunCalls(Tail(calls), RunOps(Invoke(c.method, c.side, target), st))

LinkResult(nav, method, st) ==
  IF globalIsSet(global)
  THEN RunCalls(linkBody(nav, method), [root |-> st.root, hide |-> st.hide, err |-> FALSE])
  ELSE [root |-> st.root, hide |-> st.hide, err |-> FALSE]


Snapshot == [root |-> rootClass, hide |-> ngHide]

Linked == {e \in Elems : navSide[e] # "none"}
UsedScopes == {scopeOf[e] : e \in Linked}

----------------------------------------------------------------------------
Init ==
  /\ global = Undefined
  /\ ctrl = [e \in Elems |-> [s \in Sides |-> Undefined]]
  /\ rootClass = {}
  /\ ngHide = [e \in Elems |-> FALSE]
  /\ navSide = [e \in Elems |-> "none"]
  /\ scopeOf = [e \in Elems |-> Undefined]
  /\ destroyed = {}
  /\ stack = <<>>
  /\ cur = [kind |-> "none", nav |-> "none", method |-> "none", scope |-> Undefined]
  /\ err = FALSE
  /\ pre = [root |-> {}, hide |-> [e \in Elems |-> FALSE]]
  /\ lastLinked = [s \in Sides |-> Undefined]
  /\ hiddenAtLink = {}
  /\ toggled = FALSE

\* link of navbarAbsoluteTop / navbarAbsoluteBottom on element e, which lives
\* on scope s and carries ng-hide in its markup iff h.  Elements and scopes
\* are numbered in the order they first appear.
NavbarLink(e, side, s, h) ==
  /\ stack = <<>>
  /\ e = Cardinality(Linked) + 1
  /\ s \notin destroyed
  /\ s \in UsedScopes \/ s = Cardinality(UsedScopes \cup destroyed) + 1
  /\ rootClass' = rootClass \cup {side}
  /\ global' = globalAfterLink(global, e)
  /\ ctrl' = registerController(ctrl, global', side, e)
  /\ ngHide' = [ngHide EXCEPT ![e] = h]
  /\ navSide' = [navSide EXCEPT ![e] = side]
  /\ scopeOf' = [scopeOf EXCEPT ![e] = s]
  /\ cur' = [kind |-> "link", nav |-> side, method |-> "none", scope |-> s]
  /\ err' = FALSE
  /\ pre' = [root |-> rootClass, hide |-> ngHide']
  /\ lastLinked' = [lastLinked EXCEPT ![side] = e]
  /\ hiddenAtLink' = IF h THEN hiddenAtLink \cup {side} ELSE hiddenAtLink
  /\ UNCHANGED <<destroyed, stack, toggled>>

\* $destroy on scope s: every listener registered by a navbar link on s runs.
ScopeDestroy(s) ==
  /\ stack = <<>>
  /\ s \in UsedScopes
  /\ s \notin destroyed
  /\ destroyed' = destroyed \cup {s}
  /\ rootClass' = rootClass \ {navSide[e] : e \in {x \in Linked : scopeOf[x] = s}}
  /\ cur' = [kind |-> "destroy", nav |-> "none", method |-> "none", scope |-> s]
  /\ err' = FALSE
  /\ pre' = Snapshot
  /\ UNCHANGED <<global, ctrl, ngHide, navSide, scopeOf, stack, lastLinked,
                 hiddenAtLink, toggled>>

\* link of the directive method + nav + "Nav": entry and the test of `global`.
ToggleLink(nav, method) ==
  /\ stack = <<>>
  /\ stack' = IF globalIsSet(global) THEN linkBody(nav, method) ELSE <<>>
  /\ cur' = [kind |-> "toggle", nav |-> nav, method |-> method, scope |-> Undefined]
  /\ err' = FALSE
  /\ pre' = Snapshot
  /\ toggled' = TRUE
  /\ UNCHANGED <<global, ctrl, rootClass, ngHide, navSide, scopeOf, destroyed,
                 lastLinked, hiddenAtLink>>

\* global[side][method](): a TypeError when global[side] is undefined, which
\* ends the link; otherwise the method's body runs next.
CallMethod ==
  /\ stack # <<>>
  /\ Head(stack).op = "call"
  /\ LET c == Head(stack)
         target == Lookup(global, ctrl, c.side)
     IN IF target = Undefined
        THEN /\ err' = TRUE
             /\ stack' = <<>>
        ELSE /\ err' = err
             /\ stack' = Invoke(c.method, c.side, target) \o Tail(stack)
  /\ UNCHANGED <<global, ctrl, rootClass, ngHide, navSide, scopeOf, destroyed,
                 cur, pre, lastLinked, hiddenAtLink, toggled>>

\* One addClass / removeClass of a controller method.
ClassOp ==
  /\ stack # <<>>
  /\ Head(stack).op # "call"
  /\ rootClass' = ApplyRoot(Head(stack), rootClass)
  /\ ngHide' = ApplyElem(Head(stack), ngHide)
  /\ stack' = Tail(stack)
  /\ UNCHANGED <<global, ctrl, navSide, scopeOf, destroyed, cur, err, pre,
                 lastLinked, hiddenAtLink, toggled>>

Next ==
  \/ \E e \in Elems, side \in Sides, s \in Scopes, h \in BOOLEAN : NavbarLink(e, side, s, h)
  \/ \E s \in Scopes : ScopeDestroy(s)
  \/ \E nav \in Navs, method \in Methods : ToggleLink(nav, method)
  \/ CallMethod
  \/ ClassOp

Spec == Init /\ [][Next]_vars

----------------------------------------------------------------------------
\* Vocabulary of the properties.

\* The navbars linked for `side`.
NavbarsOf(side) == {e \in Linked : navSide[e] = side}
\* The sides a toggle directive names.
TargetSides(nav) == IF nav = "Both" THEN Sides ELSE {toLowerCase(nav)}
SingleNav(side) == IF side = "top" THEN "Top" ELSE "Bottom"
Hides(method) == method \in {"hide", "slideout"}
\* A toggle link has run to its end (normally or by throwing).
ToggleDone == cur.kind = "toggle" /\ stack = <<>>
Now == [root |-> rootClass, hide |-> ngHide, err |-> err]

\* C1: for a side S whose navbar has been linked, after hide-S-nav has linked
\* the navbar of S carries ng-hide and the root does not carry has-navbar-S;
\* after show-S-nav has linked the navbar does not carry ng-hide and the root
\* carries has-navbar-S.
C1_HideShowPostcondition ==
  \A S \in Sides :
    (ToggleDone /\ cur.nav = SingleNav(S) /\ lastLinked[S] # Undefined) =>
      /\ cur.method = "hide" => (ngHide[lastLinked[S]] /\ S \notin rootClass)
      /\ cur.method = "show" => (~ngHide[lastLinked[S]] /\ S \in rootClass)

C1_Witness ==
  /\ ToggleDone /\ cur.nav = "Top" /\ cur.method = "hide"
  /\ lastLinked["top"] # Undefined
  /\ ~pre.hide[lastLinked["top"]] /\ "top" \in pre.root
  /\ ngHide[lastLinked["top"]] /\ "top" \notin rootClass

\* C2: with a top and a bottom navbar linked, after an M-both-nav directive
\* has linked each of the two navbars is in the state M leaves it in (hidden
\* and without its root class for hide/slideout, shown and with its root
\* class for show/slidein), no error was raised and no other element changed.
C2_BothAppliesToBoth ==
  (ToggleDone /\ cur.nav = "Both" /\ \A S \in Sides : lastLinked[S] # Undefined) =>
    /\ ~err
    /\ \A S \in Sides :
         /\ ngHide[lastLinked[S]] = Hides(cur.method)
         /\ (S \in rootClass) = ~Hides(cur.method)
    /\ \A e \in Elems \ {lastLinked[S] : S \in Sides} : ngHide[e] = pre.hide[e]

C2_Witness ==
  /\ ToggleDone /\ cur.nav = "Both" /\ cur.method = "slidein"
  /\ \A S \in Sides : lastLinked[S] # Undefined /\ pre.hide[lastLinked[S]]
  /\ pre.root = {} /\ rootClass = Sides
  /\ \A S \in Sides : ~ngHide[lastLinked[S]]

\* C3 (as claimed): while no toggle directive has linked, the root carries
\* has-navbar-S from the link of a navbar-absolute-S element until the
\* $destroy of its scope, and does not carry it right after that $destroy.
C3_ClassFromLinkToDestroy ==
  \A e \in Linked :
    /\ (~toggled /\ scopeOf[e] \notin destroyed) => navSide[e] \in rootClass
    /\ (cur.kind = "destroy" /\ cur.scope = scopeOf[e]) => navSide[e] \notin rootClass

\* C4: a toggle directive that links before any navbar was linked raises no
\* error and changes no class.
C4_NoNavbarNoEffect ==
  (cur.kind = "toggle" /\ Linked = {}) =>
    /\ ~err
    /\ stack = <<>>
    /\ rootClass = pre.root /\ ngHide = pre.hide
    /\ rootClass = {} /\ \A e \in Elems : ~ngHide[e]

C4_Witness ==
  /\ ToggleDone /\ cur.nav = "Both" /\ cur.method = "show"
  /\ Linked = {} /\ global = Undefined /\ ~err /\ rootClass = {}

\* C5: every step of an M-top-nav link leaves the ng-hide class of every
\* bottom navbar and the root's has-navbar-bottom unchanged, and every step
\* of an M-bottom-nav link leaves the ng-hide class of every top navbar and
\* the root's has-navbar-top unchanged.
C5_OtherSideUnchanged ==
  [][\A S \in Sides :
       (cur'.kind = "toggle" /\ cur'.nav = SingleNav(S)) =>
         \A O \in Sides \ {S} :
           /\ (O \in rootClass') = (O \in rootClass)
           /\ \A e \in NavbarsOf(O) : ngHide'[e] = ngHide[e]]_vars

C5_Witness ==
  /\ ToggleDone /\ cur.nav = "Top" /\ cur.method = "slideout" /\ ~err
  /\ NavbarsOf("bottom") # {}
  /\ "bottom" \in rootClass
  /\ "top" \in pre.root /\ "top" \notin rootClass
  /\ ngHide # pre.hide

\* C6: for a side S with exactly one navbar linked, which did not carry
\* ng-hide when it linked and whose scope is not destroyed: in every state,
\* also between the two class operations of a method, the root carries
\* has-navbar-S only if that navbar does not carry ng-hide; and between
\* callbacks the root carries has-navbar-S iff the navbar does not carry
\* ng-hide.
C6_RootClassFollowsVisibility ==
  \A S \in Sides : \A e \in NavbarsOf(S) :
    (NavbarsOf(S) = {e} /\ S \notin hiddenAtLink /\ scopeOf[e] \notin destroyed) =>
      /\ S \in rootClass => ~ngHide[e]
      /\ stack = <<>> => (S \in rootClass <=> ~ngHide[e])

C6_Witness ==
  /\ NavbarsOf("top") = {1} /\ "top" \notin hiddenAtLink /\ scopeOf[1] \notin destroyed
  /\ cur.kind = "toggle" /\ cur.method = "hide"
  /\ stack # <<>> /\ Head(stack) = ElemAddClass("top", 1)
  /\ "top" \in pre.root /\ "top" \notin rootClass /\ ~ngHide[1]

\* C7 (as claimed): once every navbar of side S has had its scope destroyed
\* (so none was linked after the last $destroy), the root does not carry
\* has-navbar-S, whatever toggle directives link later.
C7_NoClassAfterDestroy ==
  \A S \in Sides :
    (NavbarsOf(S) # {} /\ \A e \in NavbarsOf(S) : scopeOf[e] \in destroyed) =>
      S \notin rootClass

\* C8 (as claimed): a toggle directive that links after some navbar was
\* linked and names a side that was never registered raises an error and
\* changes no class, also for M-both-nav with one side registered.
C8_ErrorChangesNothing ==
  (ToggleDone /\ Linked # {} /\ \E S \in TargetSides(cur.nav) : lastLinked[S] = Undefined) =>
    /\ err
    /\ rootClass = pre.root /\ ngHide = pre.hide

\* C8 (amended): such a link raises an error; it changes no class, except
\* that M-both-nav with only the bottom side registered has applied M to the
\* bottom navbar before the error is raised.
C8_ErrorAfterBottom ==
  (ToggleDone /\ Linked # {} /\ \E S \in TargetSides(cur.nav) : lastLinked[S] = Undefined) =>
    /\ err
    /\ IF cur.nav = "Both" /\ lastLinked["bottom"] # Undefined
       THEN /\ ngHide = [pre.hide EXCEPT ![lastLinked["bottom"]] = Hides(cur.method)]
            /\ rootClass = IF Hides(cur.method) THEN pre.root \ {"bottom"}
                           ELSE pre.root \cup {"bottom"}
       ELSE rootClass = pre.root /\ ngHide = pre.hide

C8_Witness ==
  /\ ToggleDone /\ cur.nav = "Both" /\ cur.method = "hide" /\ err
  /\ lastLinked["bottom"] # Undefined /\ lastLinked["top"] = Undefined
  /\ ~pre.hide[lastLinked["bottom"]] /\ ngHide[lastLinked["bottom"]]
  /\ "bottom" \in pre.root /\ "bottom" \notin rootClass

\* C9: the registry is the controller of the first navbar linked and is never
\* replaced; it holds, for each side, the navbar linked most recently; and a
\* step of a toggle link changes the ng-hide class of no element other than
\* the most recently linked navbar of a side the directive names.
C9_ActsOnMostRecent ==
  /\ [](Linked # {} => (global = 1 /\ \A S \in Sides : ctrl[global][S] = lastLinked[S]))
  /\ [][cur'.kind = "toggle" =>
          \A e \in Elems :
            ngHide'[e] # ngHide[e] =>
              \E S \in TargetSides(cur'.nav) : e = lastLinked[S]]_vars

C9_Witness ==
  /\ ToggleDone /\ cur.nav = "Top" /\ cur.method = "hide" /\ ~err
  /\ NavbarsOf("top") = {1, 2} /\ lastLinked["top"] = 2
  /\ scopeOf[1] \in destroyed /\ scopeOf[2] \notin destroyed
  /\ ~pre.hide[1] /\ ~pre.hide[2] /\ ~ngHide[1] /\ ngHide[2]

====
